---------------------------- MODULE Spec2Model ----------------------------
(***************************************************************************)
(* A model of src/file_metadata.py: the driver main(), the collector       *)
(* get_file_metadata(), the digest loop compute_sha1() and the pathlib     *)
(* name decomposition the collector stores in FileMeta.                    *)
(*                                                                         *)
(* Three specifications share the module:                                  *)
(*   Spec        main() run against one filesystem entry that other        *)
(*               processes may change between any two steps of the run;    *)
(*   SpecDigest  the read loop of compute_sha1() on a fixed content, for   *)
(*               every chunk size;                                         *)
(*   SpecPath    path.name / stem / suffix / suffixes on bounded names.    *)
(*                                                                         *)
(* Not modelled: the timestamps (three more values copied from the same    *)
(* stat result as st_size) and mime_type (a table lookup on the path       *)
(* string); argparse is an external collaborator and only hands over the   *)
(* path and the --sha1 flag.                                               *)
(***************************************************************************)
EXTENDS Integers, Sequences, FiniteSets, TLC

VARIABLES
    \* ---- the environment
    platform,        \* "posix" | "unsupported" (no pwd / grp modules)
    propagates,      \* pathlib answers of exists()/is_file()/... on EACCES:
                     \* TRUE = the error is re-raised, FALSE = answered False
    fs,              \* the filesystem entry the path names, now
    \* ---- main() and get_file_metadata()
    compute_hash,    \* args.sha1
    pc,              \* position of the run
    stat_info,       \* local of get_file_metadata
    owner_name,      \* local of get_file_metadata
    group_name,      \* local of get_file_metadata
    sha1,            \* local of get_file_metadata
    full_path,       \* value of path.resolve(), argument of FileMeta(...)
    is_file,         \* value of path.is_file(), argument of FileMeta(...)
    is_dir,          \* value of path.is_dir(), argument of FileMeta(...)
    meta,            \* the FileMeta returned to main
    exc,             \* the last exception raised
    raised_at,       \* the step that raised it
    printed,         \* print_file_metadata(meta) completed
    stderr,          \* the message category main printed to stderr
    exit_code,       \* what main returned (or the interpreter's status)
    \* ---- history, read only by the properties
    n_queries,       \* stat and lstat calls made by get_file_metadata
    stat_target,     \* what the path resolved to when line 59 ran
    hash_exc,        \* what compute_sha1 raised at line 76
    collect_result,  \* "none" | "returned" | "raised"
    \* ---- compute_sha1() step by step (SpecDigest)
    d_content, d_chunk, d_pc, d_pos, d_acc, d_fed, d_digest,
    \* ---- the name decomposition (SpecPath)
    p_name, p_out

mainVars == <<platform, propagates, fs, compute_hash, pc, stat_info, owner_name,
              group_name, sha1, full_path, is_file, is_dir, meta, exc,
              raised_at, printed, stderr, exit_code, n_queries, stat_target,
              hash_exc, collect_result>>
digestVars == <<d_content, d_chunk, d_pc, d_pos, d_acc, d_fed, d_digest>>
pathVars == <<p_name, p_out>>
vars == <<mainVars, digestVars, pathVars>>

-----------------------------------------------------------------------------
(* Bounds *)

\* Bytes of a file in SpecDigest are 0..MaxByte.
MaxByte == 1
\* Longest file content of the filesystem entry in Spec.
MaxLen == 1
\* Owner and group ids are 0..MaxId.
MaxId == 0
\* Longest file content in SpecDigest.
MaxDigestLen == 4
\* Chunk sizes in SpecDigest are 1..MaxChunk.
MaxChunk == 3
\* Longest generated file name in SpecPath.
MaxNameLen == 5

\* The chunk size of compute_sha1.
ChunkSize == 8192

\* Python's None and a local not assigned yet; a value v held is Some(v).
None == <<>>
Some(v) == <<v>>
Val(x) == x[1]
Bytes == 0..MaxByte
Ids == 0..MaxId
SeqsUpTo(S, n) == UNION {[1..k -> S] : k \in 0..n}


-----------------------------------------------------------------------------
(* The filesystem entry behind the path, as the system calls report it.    *)

\* "denied": a directory on the way to the entry refuses search permission,
\* so every query of the path fails with EACCES. "link_*": the path is a
\* symbolic link to a regular file, to a directory, or to nothing.
Kinds == {"absent", "denied", "file", "dir", "link_file", "link_dir",
          "link_dangling"}

\* readable: the process may open the entry for reading. In Spec only the
\* length of a content matters, so its bytes are all 0.
Entry(k, r, c) == [kind |-> k, readable |-> r, content |-> c]

FsStates ==
    {Entry(k, FALSE, <<>>) : k \in {"absent", "denied", "link_dangling"}}
    \cup {Entry(k, r, <<>>) : k \in {"dir", "link_dir"}, r \in BOOLEAN}
    \cup {Entry(k, r, c) :
            k \in {"file", "link_file"}, r \in BOOLEAN,
            c \in SeqsUpTo({0}, MaxLen)}

\* The owner and group of an entry. The stat of line 59 is the only query
\* that reads them, so they are drawn when it runs instead of being carried
\* in fs.
Owners == [uid : Ids, gid : Ids]

\* What the path resolves to when symbolic links are followed.
Target(e) ==
    CASE e.kind \in {"file", "link_file"} -> "file"
      [] e.kind \in {"dir", "link_dir"} -> "dir"
      [] e.kind \in {"absent", "link_dangling"} -> "absent"
      [] OTHER -> "denied"

\* st_mode: the type bits (S_IFREG 0o100000, S_IFDIR 0o040000, S_IFLNK
\* 0o120000) plus the permission bits (0o644 readable, 0o000 not).
ModeOf(type, readable) ==
    (CASE type = "file" -> 32768 [] type = "dir" -> 16384 [] OTHER -> 40960)
    + (IF readable THEN 420 ELSE 0)

S_IFMT(mode) == mode - (mode % 4096)
S_ISREG(mode) == S_IFMT(mode) = 32768
S_ISDIR(mode) == S_IFMT(mode) = 16384
S_ISLNK(mode) == S_IFMT(mode) = 40960

\* The result of a call: the exception raised ("none" when there is none)
\* and the value returned.
Raise(e) == [exc |-> e, val |-> None]
Return(v) == [exc |-> "none", val |-> v]

\* os.stat(path), following symbolic links; o is the owner of the target.
OsStat(e, o) ==
    CASE Target(e) = "denied" -> Raise("PermissionError")
      [] Target(e) = "absent" -> Raise("FileNotFoundError")
      [] OTHER -> Return([st_mode |-> ModeOf(Target(e), e.readable),
                          st_size |-> Len(e.content),
                          st_nlink |-> 1,
                          st_uid |-> o.uid,
                          st_gid |-> o.gid])

\* os.lstat(path): the link itself.
OsLstat(e, o) ==
    CASE e.kind = "denied" -> Raise("PermissionError")
      [] e.kind = "absent" -> Raise("FileNotFoundError")
      [] e.kind \in {"link_file", "link_dir", "link_dangling"} ->
            Return([st_mode |-> ModeOf("link", TRUE)])
      [] OTHER -> OsStat(e, o)

\* pathlib's exists / is_file / is_dir / is_symlink read st_mode alone,
\* whoever owns the entry.
AnyOwner == CHOOSE o \in Owners : TRUE

\* They answer False on ENOENT; EACCES is re-raised by the pathlib versions
\* that filter on errno and answered False by those built on os.path (prop
\* tells which).
Ignored(r, prop) ==
    IF r.exc = "PermissionError" /\ prop THEN Raise(r.exc) ELSE Return(FALSE)

PathExists(e, prop) ==
    LET r == OsStat(e, AnyOwner)
    IN  IF r.exc = "none" THEN Return(TRUE) ELSE Ignored(r, prop)

PathIsFile(e, prop) ==
    LET r == OsStat(e, AnyOwner)
    IN  IF r.exc = "none" THEN Return(S_ISREG(r.val.st_mode)) ELSE Ignored(r, prop)

PathIsDir(e, prop) ==
    LET r == OsStat(e, AnyOwner)
    IN  IF r.exc = "none" THEN Return(S_ISDIR(r.val.st_mode)) ELSE Ignored(r, prop)

PathIsSymlink(e, prop) ==
    LET r == OsLstat(e, AnyOwner)
    IN  IF r.exc = "none" THEN Return(S_ISLNK(r.val.st_mode)) ELSE Ignored(r, prop)

\* The exception classes that occur, and the builtin hierarchy among them.
OSErrors == {"OSError", "PermissionError", "FileNotFoundError",
             "IsADirectoryError", "BrokenPipeError"}
Exceptions == OSErrors \cup {"KeyError", "UnicodeEncodeError",
                             "ModuleNotFoundError"}

IsOSError(e) == e \in OSErrors
IsException(e) == e \in Exceptions

-----------------------------------------------------------------------------
(* compute_sha1: the incremental hash and the read loop.                   *)

\* hashlib.sha1(): the accumulator. The compression function is replaced by
\* a polynomial hash over the bytes absorbed, which like SHA-1 depends on
\* every byte, on their order and on their number.
Sha1New == [h |-> 0, n |-> 0]

RECURSIVE Sha1Update(_, _)
Sha1Update(acc, chunk) ==
    IF chunk = <<>> THEN acc
    ELSE Sha1Update([h |-> (acc.h * 257 + Head(chunk) + 1) % 65521,
                     n |-> acc.n + 1], Tail(chunk))

\* sha1.hexdigest()
HexDigest(acc) == <<acc.h, acc.n>>

\* f.read(n) at offset pos of a regular file opened "rb": the next n bytes,
\* fewer only at the end of the file, b"" at the end.
FReadShortIsEof(content, pos, n) ==
    IF pos + n <= Len(content) THEN SubSeq(content, pos + 1, pos + n) ELSE <<>>

FRead(content, pos, n) ==
    SubSeq(content, pos + 1, IF pos + n <= Len(content) THEN pos + n
                             ELSE Len(content))

\* for chunk in iter(lambda: f.read(n), b""): sha1.update(chunk)
RECURSIVE ReadLoop(_, _, _, _)
ReadLoop(content, pos, acc, n) ==
    LET chunk == FRead(content, pos, n)
    IN  IF chunk = <<>> THEN acc
        ELSE ReadLoop(content, pos + Len(chunk), Sha1Update(acc, chunk), n)

\* The outcomes of compute_sha1(path) on entry e: open() fails with EACCES,
\* ENOENT or EISDIR; a read of an opened file may fail with EIO.
ComputeSha1(e) ==
    CASE Target(e) = "denied" -> {Raise("PermissionError")}
      [] Target(e) = "absent" -> {Raise("FileNotFoundError")}
      [] ~e.readable -> {Raise("PermissionError")}
      [] Target(e) = "dir" -> {Raise("IsADirectoryError")}
      [] OTHER -> {Return(HexDigest(ReadLoop(e.content, 0, Sha1New, ChunkSize))),
                   Raise("OSError")}

\* The sentinel of line 78. Digest strings are sequences.
AccessDenied == <<"(access denied)">>

\* except PermissionError: (line 77)
DigestExceptAnyOSError(e) == IsOSError(e)

DigestExcept(e) == e = "PermissionError"

-----------------------------------------------------------------------------
(* pathlib: the final component and its decomposition.  Names are          *)
(* sequences of one-character strings.                                     *)

ArchiveTarGz == <<"a", "r", "c", "h", "i", "v", "e", ".", "t", "a", "r", ".",
                  "g", "z">>

\* name.rfind('.'), 1-based; 0 when there is no dot.
RFindDot(name) ==
    LET dots == {i \in 1..Len(name) : name[i] = "."}
    IN  IF dots = {} THEN 0 ELSE CHOOSE i \in dots : \A j \in dots : j <= i

\* name.lstrip('.')
RECURSIVE LStripDots(_)
LStripDots(name) ==
    IF name # <<>> /\ Head(name) = "." THEN LStripDots(Tail(name)) ELSE name

\* name.split('.')
RECURSIVE SplitDots(_)
SplitDots(name) ==
    LET dots == {i \in 1..Len(name) : name[i] = "."}
    IN  IF dots = {} THEN <<name>>
        ELSE LET i == CHOOSE i \in dots : \A j \in dots : i <= j
             IN  <<SubSeq(name, 1, i - 1)>>
                 \o SplitDots(SubSeq(name, i + 1, Len(name)))

\* PurePath.suffix
Suffix(name) ==
    LET i == RFindDot(name)
    IN  IF 1 < i /\ i < Len(name) THEN SubSeq(name, i, Len(name)) ELSE <<>>

\* PurePath.suffixes
Suffixes(name) ==
    IF name # <<>> /\ name[Len(name)] = "." THEN <<>>
    ELSE LET parts == SplitDots(LStripDots(name))
         IN  [k \in 1..(Len(parts) - 1) |-> <<".">> \o parts[k + 1]]

\* The sequences of a sequence of sequences, joined.
RECURSIVE Concat(_)
Concat(ss) == IF ss = <<>> THEN <<>> ELSE Head(ss) \o Concat(Tail(ss))

\* PurePath.stem
StemAllSuffixesRemoved(name) ==
    SubSeq(name, 1, Len(name) - Len(Concat(Suffixes(name))))

Stem(name) ==
    LET i == RFindDot(name)
    IN  IF 1 < i /\ i < Len(name) THEN SubSeq(name, 1, i - 1) ELSE name

\* The path-string arguments of FileMeta(...), lines 82-85.
PathFields(name) ==
    [name |-> name, stem |-> Stem(name), suffix |-> Suffix(name),
     suffixes |-> Suffixes(name)]

-----------------------------------------------------------------------------
(* get_file_metadata and main.                                             *)

\* path.stat(), line 59: os.stat of the path, nothing caught.
PathStatZeroOnMissing(e, o) ==
    IF OsStat(e, o).exc = "FileNotFoundError"
    THEN Return([st_mode |-> 0, st_size |-> 0, st_nlink |-> 0, st_uid |-> 0,
                 st_gid |-> 0])
    ELSE OsStat(e, o)

PathStat(e, o) == OsStat(e, o)

\* pwd.getpwuid(uid).pw_name: KeyError when the database has no entry.
GetPwUidName(uid, known) ==
    IF known THEN Return(<<"user", uid>>) ELSE Raise("KeyError")

\* grp.getgrgid(gid).gr_name: KeyError when the database has no entry.
GetGrGidName(gid, known) ==
    IF known THEN Return(<<"group", gid>>) ELSE Raise("KeyError")

\* except KeyError: (lines 64 and 68)
LookupExcept(e) == e = "KeyError"

\* path.resolve(): the link's target path when the entry is a link.
PathResolve(e) ==
    IF e.kind \in {"link_file", "link_dir", "link_dangling"}
    THEN "target_path" ELSE "path"

\* FileMeta(...), lines 80-103. owner, group and digest are None or Some(v).
FileMeta(name, resolved, st, owner, group, isfile, isdir, issymlink, digest) ==
    [full_path |-> resolved,
     name |-> PathFields(name).name,
     stem |-> PathFields(name).stem,
     suffix |-> PathFields(name).suffix,
     suffixes |-> PathFields(name).suffixes,
     size_bytes |-> st.st_size,
     mode |-> st.st_mode,
     permissions |-> st.st_mode % 512,
     n_links |-> st.st_nlink,
     owner_uid |-> st.st_uid,
     owner_name |-> owner,
     group_gid |-> st.st_gid,
     group_name |-> group,
     is_file |-> isfile,
     is_dir |-> isdir,
     is_symlink |-> issymlink,
     sha1_hash |-> digest]

\* The except clauses of main, lines 151-159, in their order.
MainHandlerPermissionOnly(e) ==
    IF e = "PermissionError" THEN "access_denied" ELSE "escape"

MainHandler(e) ==
    IF e = "PermissionError" THEN "access_denied"
    ELSE IF IsOSError(e) THEN "os_error"
    ELSE IF IsException(e) THEN "unexpected"
    ELSE "escape"

\* Lines 1-12: the module's imports. pwd and grp exist on POSIX platforms
\* only; elsewhere line 10 raises ModuleNotFoundError before main is defined
\* and the interpreter ends with status 1.
Import ==
    /\ pc = "import"
    /\ IF platform = "posix"
       THEN /\ pc' = "exists"
            /\ UNCHANGED <<exc, raised_at, exit_code>>
       ELSE /\ pc' = "crashed"
            /\ exc' = "ModuleNotFoundError"
            /\ raised_at' = "import"
            /\ exit_code' = Some(1)
    /\ UNCHANGED <<platform, propagates, fs, compute_hash, stat_info,
                   owner_name, group_name, sha1, full_path, is_file,
                   is_dir, meta, printed, stderr, n_queries, stat_target,
                   hash_exc, collect_result, digestVars, pathVars>>

\* Lines 139-141: if not path.exists(): print(...); return 1
MainExists ==
    /\ pc = "exists"
    /\ LET r == PathExists(fs, propagates)
       IN  IF r.exc # "none"
           THEN /\ exc' = r.exc /\ raised_at' = "exists" /\ pc' = "except"
                /\ UNCHANGED <<stderr, exit_code>>
           ELSE IF ~r.val
           THEN /\ stderr' = "not_found" /\ exit_code' = Some(1) /\ pc' = "done"
                /\ UNCHANGED <<exc, raised_at>>
           ELSE /\ pc' = "is_file_check"
                /\ UNCHANGED <<exc, raised_at, stderr, exit_code>>
    /\ UNCHANGED <<platform, propagates, fs, compute_hash, stat_info,
                   owner_name, group_name, sha1, full_path, is_file,
                   is_dir, meta, printed, n_queries, stat_target, hash_exc,
                   collect_result, digestVars, pathVars>>

\* Lines 142-144: if not path.is_file(): print(...); return 1
MainIsFile ==
    /\ pc = "is_file_check"
    /\ LET r == PathIsFile(fs, propagates)
       IN  IF r.exc # "none"
           THEN /\ exc' = r.exc /\ raised_at' = "is_file_check" /\ pc' = "except"
                /\ UNCHANGED <<stderr, exit_code>>
           ELSE IF ~r.val
           THEN /\ stderr' = "not_a_file" /\ exit_code' = Some(1) /\ pc' = "done"
                /\ UNCHANGED <<exc, raised_at>>
           ELSE /\ pc' = "stat"
                /\ UNCHANGED <<exc, raised_at, stderr, exit_code>>
    /\ UNCHANGED <<platform, propagates, fs, compute_hash, stat_info,
                   owner_name, group_name, sha1, full_path, is_file,
                   is_dir, meta, printed, n_queries, stat_target, hash_exc,
                   collect_result, digestVars, pathVars>>

\* Line 146 calls get_file_metadata; line 59: stat_info = path.stat()
Stat ==
    /\ pc = "stat"
    /\ n_queries' = n_queries + 1
    /\ stat_target' = Target(fs)
    /\ \E o \in Owners :
         LET r == PathStat(fs, o)
         IN  IF r.exc # "none"
             THEN /\ exc' = r.exc /\ raised_at' = "stat" /\ pc' = "except"
                  /\ collect_result' = "raised"
                  /\ UNCHANGED stat_info
             ELSE /\ stat_info' = Some(r.val) /\ pc' = "getpwuid"
                  /\ UNCHANGED <<exc, raised_at, collect_result>>
    /\ UNCHANGED <<platform, propagates, fs, compute_hash, owner_name,
                   group_name, sha1, full_path, is_file, is_dir, meta,
                   printed, stderr, exit_code, hash_exc, digestVars,
                   pathVars>>

\* Lines 62-65: owner_name = pwd.getpwuid(st_uid).pw_name, None on KeyError.
\* Whether the account database maps the id is the environment's choice.
GetPwUid ==
    /\ pc = "getpwuid"
    /\ \E known \in BOOLEAN :
         LET r == GetPwUidName(Val(stat_info).st_uid, known)
         IN  IF r.exc = "none"
             THEN /\ owner_name' = Some(r.val) /\ pc' = "getgrgid"
                  /\ UNCHANGED <<exc, raised_at, collect_result>>
             ELSE IF LookupExcept(r.exc)
             THEN /\ owner_name' = None /\ pc' = "getgrgid"
                  /\ UNCHANGED <<exc, raised_at, collect_result>>
             ELSE /\ exc' = r.exc /\ raised_at' = "getpwuid" /\ pc' = "except"
                  /\ collect_result' = "raised"
                  /\ UNCHANGED owner_name
    /\ UNCHANGED <<platform, propagates, fs, compute_hash, stat_info,
                   group_name, sha1, full_path, is_file, is_dir, meta,
                   printed, stderr, exit_code, n_queries, stat_target,
                   hash_exc, digestVars, pathVars>>

\* Lines 66-69: group_name = grp.getgrgid(st_gid).gr_name, None on KeyError.
GetGrGid ==
    /\ pc = "getgrgid"
    /\ \E known \in BOOLEAN :
         LET r == GetGrGidName(Val(stat_info).st_gid, known)
         IN  IF r.exc = "none"
             THEN /\ group_name' = Some(r.val) /\ pc' = "hash"
                  /\ UNCHANGED <<exc, raised_at, collect_result>>
             ELSE IF LookupExcept(r.exc)
             THEN /\ group_name' = None /\ pc' = "hash"
                  /\ UNCHANGED <<exc, raised_at, collect_result>>
             ELSE /\ exc' = r.exc /\ raised_at' = "getgrgid" /\ pc' = "except"
                  /\ collect_result' = "raised"
                  /\ UNCHANGED group_name
    /\ UNCHANGED <<platform, propagates, fs, compute_hash, stat_info,
                   owner_name, sha1, full_path, is_file, is_dir, meta,
                   printed, stderr, exit_code, n_queries, stat_target,
                   hash_exc, digestVars, pathVars>>

\* Lines 73-78: sha1 = None; if compute_hash: try compute_sha1(path), the
\* sentinel on PermissionError. compute_sha1 runs as one blocking unit.
Hash ==
    /\ pc = "hash"
    /\ IF ~compute_hash
       THEN /\ pc' = "resolve"
            /\ UNCHANGED <<sha1, hash_exc, exc, raised_at, collect_result>>
       ELSE \E o \in ComputeSha1(fs) :
              /\ hash_exc' = o.exc
              /\ IF o.exc = "none"
                 THEN /\ sha1' = Some(o.val) /\ pc' = "resolve"
                      /\ UNCHANGED <<exc, raised_at, collect_result>>
                 ELSE IF DigestExcept(o.exc)
                 THEN /\ sha1' = Some(AccessDenied) /\ pc' = "resolve"
                      /\ UNCHANGED <<exc, raised_at, collect_result>>
                 ELSE /\ exc' = o.exc /\ raised_at' = "hash" /\ pc' = "except"
                      /\ collect_result' = "raised"
                      /\ UNCHANGED sha1
    /\ UNCHANGED <<platform, propagates, fs, compute_hash, stat_info,
                   owner_name, group_name, full_path, is_file, is_dir,
                   meta, printed, stderr, exit_code, n_queries,
                   stat_target, digestVars, pathVars>>

\* Line 81: full_path = path.resolve(), not strict: it reads the link when
\* the entry is one, and errors leave the path as it is. Its lookups are
\* not counted in n_queries.
Resolve ==
    /\ pc = "resolve"
    /\ full_path' = Some(PathResolve(fs))
    /\ pc' = "is_file"
    /\ UNCHANGED <<platform, propagates, fs, compute_hash, stat_info,
                   owner_name, group_name, sha1, is_file, is_dir, meta,
                   exc, raised_at, printed, stderr, exit_code, n_queries,
                   stat_target, hash_exc, collect_result, digestVars,
                   pathVars>>

\* Line 98: is_file = path.is_file()
IsFile ==
    /\ pc = "is_file"
    /\ n_queries' = n_queries + 1
    /\ LET r == PathIsFile(fs, propagates)
       IN  IF r.exc # "none"
           THEN /\ exc' = r.exc /\ raised_at' = "is_file" /\ pc' = "except"
                /\ collect_result' = "raised"
                /\ UNCHANGED is_file
           ELSE /\ is_file' = Some(r.val) /\ pc' = "is_dir"
                /\ UNCHANGED <<exc, raised_at, collect_result>>
    /\ UNCHANGED <<platform, propagates, fs, compute_hash, stat_info,
                   owner_name, group_name, sha1, full_path, is_dir, meta,
                   printed, stderr, exit_code, stat_target, hash_exc,
                   digestVars, pathVars>>

\* Line 99: is_dir = path.is_dir()
IsDir ==
    /\ pc = "is_dir"
    /\ n_queries' = n_queries + 1
    /\ LET r == PathIsDir(fs, propagates)
       IN  IF r.exc # "none"
           THEN /\ exc' = r.exc /\ raised_at' = "is_dir" /\ pc' = "except"
                /\ collect_result' = "raised"
                /\ UNCHANGED is_dir
           ELSE /\ is_dir' = Some(r.val) /\ pc' = "is_symlink"
                /\ UNCHANGED <<exc, raised_at, collect_result>>
    /\ UNCHANGED <<platform, propagates, fs, compute_hash, stat_info,
                   owner_name, group_name, sha1, full_path, is_file, meta,
                   printed, stderr, exit_code, stat_target, hash_exc,
                   digestVars, pathVars>>

\* Line 100: is_symlink = path.is_symlink(); then lines 80-103 build the
\* FileMeta and return it to line 146.
IsSymlink ==
    /\ pc = "is_symlink"
    /\ n_queries' = n_queries + 1
    /\ LET r == PathIsSymlink(fs, propagates)
       IN  IF r.exc # "none"
           THEN /\ exc' = r.exc /\ raised_at' = "is_symlink" /\ pc' = "except"
                /\ collect_result' = "raised"
                /\ UNCHANGED meta
           ELSE /\ meta' = Some(FileMeta(p_name, Val(full_path), Val(stat_info),
                                         owner_name, group_name, Val(is_file),
                                         Val(is_dir), r.val, sha1))
                /\ collect_result' = "returned"
                /\ pc' = "print"
                /\ UNCHANGED <<exc, raised_at>>
    /\ UNCHANGED <<platform, propagates, fs, compute_hash, stat_info,
                   owner_name, group_name, sha1, full_path, is_file,
                   is_dir, printed, stderr, exit_code, stat_target,
                   hash_exc, digestVars, pathVars>>

\* Lines 147-149: print_file_metadata(meta); return 0. Writing to a closed
\* stdout raises BrokenPipeError.
PrintMeta ==
    /\ pc = "print"
    /\ \E o \in {"none", "BrokenPipeError"} :
         IF o = "none"
         THEN /\ printed' = TRUE /\ exit_code' = Some(0) /\ pc' = "done"
              /\ UNCHANGED <<exc, raised_at>>
         ELSE /\ exc' = o /\ raised_at' = "print" /\ pc' = "except"
              /\ UNCHANGED <<printed, exit_code>>
    /\ UNCHANGED <<platform, propagates, fs, compute_hash, stat_info,
                   owner_name, group_name, sha1, full_path, is_file,
                   is_dir, meta, stderr, n_queries, stat_target, hash_exc,
                   collect_result, digestVars, pathVars>>

\* Lines 151-159: the except clauses of main, each returning 1. An exception
\* no clause matches leaves main and ends the interpreter with status 1.
MainExcept ==
    /\ pc = "except"
    /\ LET h == MainHandler(exc)
       IN  IF h = "escape"
           THEN /\ pc' = "crashed" /\ exit_code' = Some(1) /\ UNCHANGED stderr
           ELSE /\ pc' = "done" /\ exit_code' = Some(1) /\ stderr' = h
    /\ UNCHANGED <<platform, propagates, fs, compute_hash, stat_info,
                   owner_name, group_name, sha1, full_path, is_file,
                   is_dir, meta, exc, raised_at, printed, n_queries,
                   stat_target, hash_exc, collect_result, digestVars,
                   pathVars>>

\* Another process replaces, removes, creates, rewrites, chowns or chmods
\* the entry (or a directory above it) while main runs. After the last
\* query of the path no step can observe a change.
EnvChange ==
    /\ pc \in {"exists", "is_file_check", "stat", "getpwuid", "getgrgid", "hash",
              "resolve", "is_file", "is_dir", "is_symlink"}
    /\ \E e \in FsStates : e # fs /\ fs' = e
    /\ UNCHANGED <<platform, propagates, compute_hash, pc, stat_info,
                   owner_name, group_name, sha1, full_path, is_file,
                   is_dir, meta, exc, raised_at, printed, stderr,
                   exit_code, n_queries, stat_target, hash_exc,
                   collect_result, digestVars, pathVars>>

-----------------------------------------------------------------------------
(* Spec: one run of the tool.                                              *)

DigestIdle ==
    /\ d_content = <<>> /\ d_chunk = ChunkSize /\ d_pc = "idle" /\ d_pos = 0
    /\ d_acc = Sha1New /\ d_fed = <<>> /\ d_digest = None

PathIdle == p_name = ArchiveTarGz /\ p_out = None

MainIdle ==
    /\ platform = "posix" /\ propagates = TRUE
    /\ fs = Entry("absent", FALSE, <<>>)
    /\ compute_hash = FALSE /\ pc = "idle"
    /\ stat_info = None /\ owner_name = None /\ group_name = None
    /\ sha1 = None /\ full_path = None /\ is_file = None /\ is_dir = None
    /\ meta = None /\ exc = "none" /\ raised_at = "none" /\ printed = FALSE
    /\ stderr = "none" /\ exit_code = None /\ n_queries = 0
    /\ stat_target = "none" /\ hash_exc = "none" /\ collect_result = "none"

Init ==
    /\ platform \in {"posix", "unsupported"}
    /\ propagates \in BOOLEAN
    /\ fs \in FsStates
    /\ compute_hash \in BOOLEAN
    /\ pc = "import"
    /\ stat_info = None /\ owner_name = None /\ group_name = None
    /\ sha1 = None /\ full_path = None /\ is_file = None /\ is_dir = None
    /\ meta = None /\ exc = "none" /\ raised_at = "none" /\ printed = FALSE
    /\ stderr = "none" /\ exit_code = None /\ n_queries = 0
    /\ stat_target = "none" /\ hash_exc = "none" /\ collect_result = "none"
    /\ DigestIdle
    /\ PathIdle

Next ==
    \/ Import
    \/ MainExists
    \/ MainIsFile
    \/ Stat
    \/ GetPwUid
    \/ GetGrGid
    \/ Hash
    \/ Resolve
    \/ IsFile
    \/ IsDir
    \/ IsSymlink
    \/ PrintMeta
    \/ MainExcept
    \/ EnvChange

Spec == Init /\ [][Next]_vars

-----------------------------------------------------------------------------
(* SpecDigest: compute_sha1 step by step on an unchanging readable file,   *)
(* for every content and every chunk size within the bounds.               *)

\* Lines 42-43: sha1 = hashlib.sha1(); with path.open("rb") as f
DigestOpen ==
    /\ d_pc = "open"
    /\ d_acc' = Sha1New
    /\ d_pos' = 0
    /\ d_pc' = "read"
    /\ UNCHANGED <<d_content, d_chunk, d_fed, d_digest, mainVars, pathVars>>

\* Lines 44-45: one turn of the loop: chunk = f.read(n); the loop ends on
\* b"", otherwise sha1.update(chunk).
DigestRead ==
    /\ d_pc = "read"
    /\ LET chunk == FRead(d_content, d_pos, d_chunk)
       IN  IF chunk = <<>>
           THEN /\ d_pc' = "eof"
                /\ UNCHANGED <<d_acc, d_pos, d_fed>>
           ELSE /\ d_acc' = Sha1Update(d_acc, chunk)
                /\ d_pos' = d_pos + Len(chunk)
                /\ d_fed' = d_fed \o chunk
                /\ d_pc' = "read"
    /\ UNCHANGED <<d_content, d_chunk, d_digest, mainVars, pathVars>>

\* Line 46: return sha1.hexdigest()
DigestReturn ==
    /\ d_pc = "eof"
    /\ d_digest' = Some(HexDigest(d_acc))
    /\ d_pc' = "done"
    /\ UNCHANGED <<d_content, d_chunk, d_acc, d_pos, d_fed, mainVars, pathVars>>

InitDigest ==
    /\ d_content \in SeqsUpTo(Bytes, MaxDigestLen)
    /\ d_chunk \in 1..MaxChunk
    /\ d_pc = "open" /\ d_pos = 0 /\ d_acc = Sha1New /\ d_fed = <<>>
    /\ d_digest = None
    /\ MainIdle
    /\ PathIdle

NextDigest ==
    \/ DigestOpen
    \/ DigestRead
    \/ DigestReturn

SpecDigest == InitDigest /\ [][NextDigest]_vars

-----------------------------------------------------------------------------
(* SpecPath: the path-string fields of the record, for every name within   *)
(* the bounds and for "archive.tar.gz".                                    *)

NameChars == {"a", "."}
Names == SeqsUpTo(NameChars, MaxNameLen) \cup {ArchiveTarGz}

\* Lines 82-85: name, stem, suffix and suffixes of the path.
Decompose ==
    /\ p_out = None
    /\ p_out' = Some(PathFields(p_name))
    /\ UNCHANGED <<p_name, mainVars, digestVars>>

InitPath ==
    /\ p_name \in Names
    /\ p_out = None
    /\ MainIdle
    /\ DigestIdle

NextPath == Decompose

SpecPath == InitPath /\ [][NextPath]_vars

-----------------------------------------------------------------------------
(* The claims.                                                             *)

\* The type flags of record m agree with the type bits of its mode.
FlagsMatchMode(m) ==
    /\ m.is_file = S_ISREG(m.mode)
    /\ m.is_dir = S_ISDIR(m.mode)

\* C1: collect never returns a record for an entry that is not a regular
\* file: on a directory it fails (NotAFileError) instead.
C1_NoRecordForDirectory ==
    meta # None => S_ISREG(Val(meta).mode)

\* C2: when the path names nothing as line 59 runs, collect fails with
\* FileNotFoundError raised by that stat, the only query made, and nothing
\* of a record exists: no local is assigned and no FileMeta is built.
C2_MissingPathFails ==
    stat_target = "absent" =>
        /\ exc = "FileNotFoundError" /\ raised_at = "stat"
        /\ collect_result = "raised"
        /\ n_queries = 1
        /\ stat_info = None /\ owner_name = None /\ group_name = None
        /\ sha1 = None /\ full_path = None /\ is_file = None /\ is_dir = None
        /\ meta = None

\* C2 witness: the entry vanished between main's checks and the stat, and
\* main has returned.
C2_Witness ==
    stat_target = "absent" /\ pc = "done" /\ exit_code = Some(1)

\* C3: once compute_sha1 has raised PermissionError, collect does not fail:
\* it returns a record whose digest is the sentinel and whose other fields
\* are those of the stat of line 59.
C3_SentinelRecord ==
    (hash_exc = "PermissionError" /\ collect_result # "none") =>
        /\ collect_result = "returned"
        /\ Val(meta).sha1_hash = Some(AccessDenied)
        /\ Val(meta).size_bytes = Val(stat_info).st_size
        /\ Val(meta).mode = Val(stat_info).st_mode
        /\ Val(meta).n_links = Val(stat_info).st_nlink
        /\ Val(meta).owner_uid = Val(stat_info).st_uid
        /\ Val(meta).group_gid = Val(stat_info).st_gid
        /\ FlagsMatchMode(Val(meta))

\* C4 as stated: whatever compute_sha1 raises, collect stores the sentinel
\* and the error does not leave the digest step.
C4_AnyReadErrorBecomesSentinel ==
    hash_exc # "none" => (sha1 = Some(AccessDenied) /\ raised_at # "hash")

\* C4 amended: a PermissionError of compute_sha1 is replaced by the sentinel
\* and does not leave the digest step; every other error of compute_sha1
\* leaves get_file_metadata uncaught, with no digest and no record, and main
\* reports it as an OS error and returns 1.
C4_OnlyPermissionErrorBecomesSentinel ==
    /\ hash_exc = "PermissionError" =>
          (sha1 = Some(AccessDenied) /\ raised_at # "hash")
    /\ hash_exc \notin {"none", "PermissionError"} =>
          /\ exc = hash_exc /\ raised_at = "hash"
          /\ collect_result = "raised"
          /\ sha1 = None /\ meta = None
          /\ pc \in {"except", "done"}
          /\ pc = "done" => (exit_code = Some(1) /\ stderr = "os_error")

\* C4 witness: a read failed with EIO in mid-stream and main has reported
\* it.
C4_Witness ==
    hash_exc = "OSError" /\ pc = "done" /\ stderr = "os_error"

\* C5: nothing the identity lookup needs ever interrupts the run: not the
\* lookups of lines 63 and 67, and not the loading of pwd and grp on a
\* platform without them.
C5_IdentityNeverInterrupts ==
    raised_at \notin {"import", "getpwuid", "getgrgid"}

\* C6: main returns 0 exactly when a record was collected and printed, and
\* 1 with a message otherwise; no exception raised under main leaves it,
\* whatever the environment did between its steps.
C6_ExitCodes ==
    /\ pc = "done" =>
          /\ exit_code \in {Some(0), Some(1)}
          /\ exit_code = Some(0) <=> (collect_result = "returned" /\ printed)
          /\ exit_code = Some(1) <=>
                stderr \in {"not_found", "not_a_file", "access_denied",
                            "os_error", "unexpected"}
    /\ pc = "crashed" => raised_at = "import"
    /\ pc \notin {"done", "crashed"} => exit_code = None

\* C6 witness: the entry was removed between the stat and the digest read,
\* and main returned 1.
C6_Witness ==
    /\ pc = "done" /\ exit_code = Some(1)
    /\ raised_at = "hash" /\ exc = "FileNotFoundError"

\* C7: the loop feeds the accumulator the file's bytes in order, a prefix
\* of the content at every turn and all of it at the end, so the digest is
\* that of the whole content hashed at once, whatever the chunk size.
C7_ChunkedEquivalence ==
    /\ d_pc \in {"read", "eof", "done"} =>
          /\ d_fed = SubSeq(d_content, 1, d_pos)
          /\ d_acc = Sha1Update(Sha1New, d_fed)
    /\ d_pc \in {"eof", "done"} => d_fed = d_content
    /\ d_pc = "done" =>
          d_digest = Some(HexDigest(Sha1Update(Sha1New, d_content)))

\* C7 witness: a content read in several chunks, the last one short.
C7_Witness ==
    d_pc = "done" /\ Len(d_content) = 3 /\ d_chunk = 2

\* C8 as stated: for "archive.tar.gz", suffixes is [".tar", ".gz"] and stem
\* is "archive", the name without any of its extensions.
C8_StemDropsAllExtensions ==
    (p_out # None /\ p_name = ArchiveTarGz) =>
        /\ Val(p_out).suffixes = << <<".", "t", "a", "r">>, <<".", "g", "z">> >>
        /\ Val(p_out).stem = <<"a", "r", "c", "h", "i", "v", "e">>

\* C8 amended: for "archive.tar.gz", suffixes is [".tar", ".gz"] and stem is
\* "archive.tar"; for every name, stem is the name without its last
\* extension only (stem + suffix = name), and the last of suffixes, when
\* there is one, is that extension.
C8_StemDropsLastExtension ==
    p_out # None =>
        /\ Val(p_out).name = p_name
        /\ Val(p_out).stem \o Val(p_out).suffix = p_name
        /\ Val(p_out).suffixes # <<>> =>
              Val(p_out).suffixes[Len(Val(p_out).suffixes)] = Val(p_out).suffix
        /\ p_name = ArchiveTarGz =>
              /\ Val(p_out).suffixes
                    = << <<".", "t", "a", "r">>, <<".", "g", "z">> >>
              /\ Val(p_out).stem
                    = <<"a", "r", "c", "h", "i", "v", "e", ".", "t", "a", "r">>

\* C8 witness: "archive.tar.gz" has been decomposed.
C8_Witness ==
    p_out # None /\ p_name = ArchiveTarGz /\ Len(Val(p_out).suffixes) = 2

\* C9: in every record the three type flags describe the resolved target:
\* exactly one of them holds and each agrees with the type bits of the
\* followed stat (so is_symlink is false for a link to a regular file).
C9_FlagsOfResolvedTarget ==
    meta # None =>
        /\ Cardinality({f \in {"is_file", "is_dir", "is_symlink"} :
                          Val(meta)[f]}) = 1
        /\ FlagsMatchMode(Val(meta))
        /\ Val(meta).is_symlink = S_ISLNK(Val(meta).mode)

\* C10: collect makes exactly one stat-equivalent query, and every
\* stat-derived field of the record comes from it, so that the type flags
\* agree with the mode it returned.
C10_SingleQuery ==
    /\ n_queries <= 1
    /\ meta # None => FlagsMatchMode(Val(meta))

=============================================================================
